---------------------------- MODULE Spec2Model ----------------------------
(***************************************************************************)
(* Model of the employee-handbook RAG pipeline (src/RAG):                  *)
(*   chunk -> embed -> build_vector_db -> retrieve -> prompt composition.  *)
(*                                                                         *)
(* Strings are modelled as sequences of tokens, so that concatenation and  *)
(* containment are real operations.  Vectors are integer unit vectors in   *)
(* the plane (the embedding model normalises its output) and the distance  *)
(* is the squared L2 distance, the default metric of the collection.       *)
(* A Python dict is a sequence of <<key, value>> pairs in insertion order.  *)
(* Metadata keys: "clause" stands for the key 条款, "source" for 来源.      *)
(***************************************************************************)
EXTENDS Integers, Sequences, FiniteSets, TLC

(* ------------------------------ bounds --------------------------------- *)

\* Greatest number of entries of an input collection given to chunk.
MaxEntries == 2

\* Greatest number of documents the pipeline handles at once.
MaxDocs == 2

\* Greatest k a caller passes to retrieve (the least is -1).
MaxK == 3

\* The most test cases a harness run is given.
MaxCases == 2

\* The most lines a run of the interactive loop is followed for.
MaxLines == 2

\* The most matches of the clause pattern a converted text holds.
MaxMatches == 3

(* --------------------------- program constants ------------------------- *)

\* k of the interactive loop, main.py:111 (also retrieve's default).
DEFAULT_K == 3

\* n_results of the query test of vector_db.py.
TEST_N_RESULTS == 2

\* "BAAI/bge-large-zh-v1.5", the model name retrieve loads.
RETRIEVE_MODEL == "bge"

\* The model names a caller may pass to embed.
Models == {"bge", "other"}

\* "员工手册", the constant source label chunk attaches.
SOURCE_LABEL == "handbook"

\* collection_name of build_vector_db.
COLLECTION_NAME == "employee_handbook"

(* ------------------------------ data ----------------------------------- *)

\* Clause identifiers (keys of the input mappings).
Ids == {"c1", "c2"}

\* Clause texts and query strings: the empty string, "a", "b".
Texts == {<<>>, <<"a">>, <<"b">>}

\* The clause texts of the documents given to build_vector_db.
IndexedTexts == {<<"a">>, <<"b">>}

\* Query strings given to retrieve.
Queries == {<<>>, <<"a">>, <<"w">>}

\* The record of "no call made yet"; every call record starts with op.
NoCall == [op |-> "none"]

\* Sequences over S of length at most n.
SeqUpTo(S, n) == UNION {[1..m -> S] : m \in 0..n}

\* dict.get(key, default)
RECURSIVE DictGet(_, _, _)
DictGet(d, key, default) ==
    IF d = <<>> THEN default
    ELSE IF Head(d)[1] = key THEN Head(d)[2]
    ELSE DictGet(Tail(d), key, default)

\* key in dict
DictHas(d, key) == \E i \in 1..Len(d) : d[i][1] = key

\* dict[key] = value: the value replaces the old one in place, a new key is
\* appended.
DictSet(d, key, value) ==
    IF DictHas(d, key)
    THEN [i \in 1..Len(d) |-> IF d[i][1] = key THEN <<key, value>> ELSE d[i]]
    ELSE Append(d, <<key, value>>)

\* A mapping of the input file: key/value pairs in insertion order, keys
\* pairwise distinct (a Python dict).
Dicts ==
    {d \in SeqUpTo(Ids \X Texts, Cardinality(Ids)) :
        \A i, j \in 1..Len(d) : d[i][1] = d[j][1] => i = j}

\* The input collections.
JsonData == SeqUpTo(Dicts, MaxEntries)

(* ---------------------------- chunk.py --------------------------------- *)

\* Document(page_content=value, metadata={"条款": key, "来源": "员工手册"})
Document(key, value) ==
    [metadata |-> << <<"clause", key>>, <<"source", SOURCE_LABEL>> >>,
     page_content |-> value]

\* Mutant: a pair with an empty text is skipped.
ItemDocumentsSkipEmpty(item) ==
    LET NonEmpty(pair) == pair[2] # <<>>
        kept == SelectSeq(item, NonEmpty)
    IN  [p \in 1..Len(kept) |-> Document(kept[p][1], kept[p][2])]

\* The inner loop of chunk: one Document per key/value pair of an item.
ItemDocuments(item) == [p \in 1..Len(item) |-> Document(item[p][1], item[p][2])]

RECURSIVE chunk(_)
\* chunk(json_data): the documents of the items, appended in order.
chunk(json_data) ==
    IF json_data = <<>> THEN <<>>
    ELSE ItemDocuments(Head(json_data)) \o chunk(Tail(json_data))


\* The document lists chunk can produce, of at most n documents with texts
\* among T.
ChunkedDocs(T, n) == SeqUpTo({Document(key, value) : key \in Ids, value \in T}, n)

(* ------------------------ utils.py / embedding.py ---------------------- *)

\* A vector the embedding model named m computes for a text: a pure function
\* of (text, model).  The two models are incompatible (different tables) and
\* "other" maps the texts "a" and "b" to the same vector.
EmbedText(m, t) ==
    IF m = "bge"
    THEN CASE t = <<>>     -> <<0, 1>>
           [] t = <<"a">>  -> <<1, 0>>
           [] t = <<"b">>  -> <<-1, 0>>
           [] OTHER        -> <<0, -1>>
    ELSE CASE t = <<>>     -> <<1, 0>>
           [] t = <<"a">>  -> <<0, 1>>
           [] t = <<"b">>  -> <<0, 1>>
           [] OTHER        -> <<-1, 0>>

\* embedding_model.embed_documents(texts): one vector per text, in order.
embed_documents(m, texts) == [i \in 1..Len(texts) |-> EmbedText(m, texts[i])]

\* embedding_model.embed_query(text)
embed_query(m, text) == EmbedText(m, text)

\* doc.metadata['embedding'] = vector
SetEmbedding(doc, vector) ==
    [doc EXCEPT !.metadata = DictSet(doc.metadata, "embedding", vector)]

\* texts = [doc.page_content for doc in documents]
PageContents(documents) == [i \in 1..Len(documents) |-> documents[i].page_content]

\* Mutant: every document gets the first vector of the batch.
embedFirstVector(documents, model_path) ==
    LET embeddings == embed_documents(model_path, PageContents(documents))
    IN  [i \in 1..Len(documents) |-> SetEmbedding(documents[i], embeddings[1])]

\* embed(documents, model_path): the documents, each with the i-th vector of
\* the one batch attached.
embed(documents, model_path) ==
    LET embeddings == embed_documents(model_path, PageContents(documents))
    IN  [i \in 1..Len(documents) |-> SetEmbedding(documents[i], embeddings[i])]

\* The calls embed makes on the embedding model: one batch of all texts.
EmbedCalls(documents) == << PageContents(documents) >>

\* What embed may be given: chunked lists, embedded already or not.
EmbedInputs(T, n) ==
    ChunkedDocs(T, n) \cup {embed(d, m) : d \in ChunkedDocs(T, n), m \in Models}

(* --------------------- the similarity index (ChromaDB) ----------------- *)

\* The state of the client's store under COLLECTION_NAME: whether the
\* collection exists, and its entries in insertion order.
NoCollection == [exists |-> FALSE, entries |-> <<>>]

\* client.delete_collection(name) inside try/except: an absent collection
\* raises, the exception is swallowed, and the store is as before.
delete_collection(c) == NoCollection

\* client.create_collection(name=name): a fresh, empty collection.
create_collection(c) == [exists |-> TRUE, entries |-> <<>>]

\* ids = [f"doc_{i}" for i in range(len(documents))]
DocId(i) == <<"doc", i>>

\* k != 'embedding'
NotEmbedding(pair) == pair[1] # "embedding"

\* Mutant: the metadata is stored whole, vector included.
StoredMetadataWhole(doc) == doc.metadata

\* metadatas: {k: v for k, v in doc.metadata.items() if k != 'embedding'}
StoredMetadata(doc) == SelectSeq(doc.metadata, NotEmbedding)

\* Mutant: every entry is stored with the vector of the first document.
EntryFirstVector(documents, i) ==
    [metadata  |-> StoredMetadata(documents[i]),
     embedding |-> DictGet(documents[1].metadata, "embedding", <<>>),
     id        |-> DocId(i - 1),
     document  |-> documents[i].page_content]

\* The entry collection.add stores for the i-th document (i from 1).
Entry(documents, i) ==
    [metadata  |-> StoredMetadata(documents[i]),
     embedding |-> DictGet(documents[i].metadata, "embedding", <<>>),
     id        |-> DocId(i - 1),
     document  |-> documents[i].page_content]

\* collection.add(ids, documents, embeddings, metadatas)
add(c, documents) ==
    [c EXCEPT !.entries = c.entries \o
        [i \in 1..Len(documents) |-> Entry(documents, i)]]

\* Squared L2 distance, the collection's default metric.
Distance(u, v) ==
    (u[1] - v[1]) * (u[1] - v[1]) + (u[2] - v[2]) * (u[2] - v[2])

\* The orders in which the index may rank its entries for a query vector:
\* ascending distance, entries at equal distance in either order.
Rankings(entries, qv) ==
    {p \in [1..Len(entries) -> 1..Len(entries)] :
        /\ \A i, j \in 1..Len(entries) : p[i] = p[j] => i = j
        /\ \A i, j \in 1..Len(entries) :
              i < j => Distance(entries[p[i]].embedding, qv)
                         <= Distance(entries[p[j]].embedding, qv)}

\* min(n_results, count): a request for more than the index holds is cut
\* down to its size.
Clamp(n_results, count) == IF n_results > count THEN count ELSE n_results

\* collection.query(query_embeddings=[qv], n_results=n) for n >= 1: the
\* columns documents, ids, metadatas, distances of the first n ranked entries.
QueryResults(entries, qv, n) ==
    {[documents |-> [i \in 1..Clamp(n, Len(entries)) |-> entries[p[i]].document],
      ids       |-> [i \in 1..Clamp(n, Len(entries)) |-> entries[p[i]].id],
      metadatas |-> [i \in 1..Clamp(n, Len(entries)) |-> entries[p[i]].metadata],
      distances |-> [i \in 1..Clamp(n, Len(entries)) |->
                        Distance(entries[p[i]].embedding, qv)]] :
        p \in Rankings(entries, qv)}

\* Mutant: a request for no or a negative number of results is answered
\* with an empty result.
QueryOutcomesLenient(c, handle, qv, n) ==
    LET refused == {[status |-> "error"]}
        answered == {[status |-> "ok", results |-> r] :
                        r \in QueryResults(c.entries, qv, n)}
    IN  IF handle = "stale" THEN refused \cup answered ELSE answered

\* The outcomes of collection.query through a handle: n_results <= 0 is
\* refused by the index; a handle whose collection was deleted since either
\* fails or is resolved by name to the collection that replaced it.
QueryOutcomes(c, handle, qv, n) ==
    LET refused == {[status |-> "error"]}
        answered == {[status |-> "ok", results |-> r] :
                        r \in QueryResults(c.entries, qv, n)}
    IN  IF n <= 0 THEN refused
        ELSE IF handle = "stale" THEN refused \cup answered
        ELSE answered

(* ---------------------------- vector_db.py ----------------------------- *)

\* doc.metadata['embedding'] raises KeyError for a document never embedded.
HasEmbeddings(documents) ==
    \A i \in 1..Len(documents) : DictHas(documents[i].metadata, "embedding")

\* Mutant: an upsert; the documents are added to the collection found.
build_vector_db_upsert(c, documents) ==
    IF ~HasEmbeddings(documents)
    THEN {[status |-> "error", collection |-> c]}
    ELSE {[status |-> "ok",
           collection |-> add([exists |-> TRUE, entries |-> c.entries], documents)]}

\* Mutant: the failure of the delete step on an absent collection is not
\* caught.
build_vector_db_delete_uncaught(c, documents) ==
    IF ~c.exists
    THEN {[status |-> "error", collection |-> c]}
    ELSE IF ~HasEmbeddings(documents)
    THEN {[status |-> "error", collection |-> create_collection(NoCollection)]}
    ELSE IF documents = <<>>
    THEN {[status |-> "error", collection |-> create_collection(NoCollection)],
          [status |-> "ok", collection |-> create_collection(NoCollection)]}
    ELSE {[status |-> "ok",
           collection |-> add(create_collection(NoCollection), documents)]}

\* Mutant: a build that fails puts the old collection back.
build_vector_db_restoring(c, documents) ==
    IF ~HasEmbeddings(documents)
    THEN {[status |-> "error", collection |-> c]}
    ELSE IF documents = <<>>
    THEN {[status |-> "error", collection |-> c],
          [status |-> "ok", collection |-> create_collection(NoCollection)]}
    ELSE {[status |-> "ok",
           collection |-> add(create_collection(NoCollection), documents)]}

\* build_vector_db(documents): delete the old collection, create a new one,
\* add every document.  The outcomes are the store after the call and
\* whether the call returned the collection ("ok") or raised ("error").
\* Preparing the columns raises when a document has no embedding; the index
\* may refuse an empty batch.
build_vector_db(c, documents) ==
    LET created == create_collection(delete_collection(c))
    IN  IF ~HasEmbeddings(documents)
        THEN {[status |-> "error", collection |-> created]}
        ELSE IF documents = <<>>
        THEN {[status |-> "error", collection |-> created],
              [status |-> "ok", collection |-> created]}
        ELSE {[status |-> "ok", collection |-> add(created, documents)]}

(* ---------------------------- retriever.py ----------------------------- *)

\* Mutant: every Document takes its metadata from the first row.
ResultDocumentFirstRow(results, i) ==
    [metadata |-> << <<"clause", DictGet(results.metadatas[1], "clause", "N/A")>>,
                     <<"source", DictGet(results.metadatas[1], "source", "N/A")>>,
                     <<"distance", results.distances[i]>> >>,
     page_content |-> results.documents[i]]

\* The Document retrieve builds from row i of the query results.
ResultDocument(results, i) ==
    [metadata |-> << <<"clause", DictGet(results.metadatas[i], "clause", "N/A")>>,
                     <<"source", DictGet(results.metadatas[i], "source", "N/A")>>,
                     <<"distance", results.distances[i]>> >>,
     page_content |-> results.documents[i]]

\* Mutant: the loop stops one row early.
ResultDocumentsDropLast(results) ==
    [i \in 1..(Len(results.ids) - 1) |->
        [metadata |-> << <<"clause", DictGet(results.metadatas[i], "clause", "N/A")>>,
                         <<"source", DictGet(results.metadatas[i], "source", "N/A")>>,
                         <<"distance", results.distances[i]>> >>,
         page_content |-> results.documents[i]]]

\* for i in range(len(results['ids'][0])): documents.append(...)
ResultDocuments(results) ==
    [i \in 1..Len(results.ids) |-> ResultDocument(results, i)]

\* Mutant: the query is embedded with another model.
retrieveOtherModel(c, handle, query, k) ==
    LET query_embedding == embed_query("other", query)
    IN  {IF o.status = "ok"
         THEN [documents |-> ResultDocuments(o.results), status |-> "ok",
               loaded |-> <<"other">>]
         ELSE [status |-> "error", loaded |-> <<"other">>] :
            o \in QueryOutcomes(c, handle, query_embedding, k)}

\* retrieve(vector_db, query, k): the embedding model RETRIEVE_MODEL is
\* loaded, the query is embedded with it, the index is queried for k results
\* and the rows are turned into Documents.  loaded lists the models the call
\* loaded.
retrieve(c, handle, query, k) ==
    LET query_embedding == embed_query(RETRIEVE_MODEL, query)
    IN  {IF o.status = "ok"
         THEN [documents |-> ResultDocuments(o.results), status |-> "ok",
               loaded |-> <<RETRIEVE_MODEL>>]
         ELSE [status |-> "error", loaded |-> <<RETRIEVE_MODEL>>] :
            o \in QueryOutcomes(c, handle, query_embedding, k)}

\* A call of retrieve as a program run sees it: loading the embedding model
\* (utils.py, HuggingFaceEmbeddings) may raise before anything is loaded.
RetrieveCall(c, handle, query, k) ==
    retrieve(c, handle, query, k) \cup {[status |-> "error", loaded |-> <<>>]}

(* ------------------------------ main.py -------------------------------- *)

\* The questions the loop passes on: trimmed, not empty, not a quit word.
Questions == Queries \ {<<>>}

\* Mutant: the block is the text alone, without the identifier.
BlockTextOnly(doc) == doc.page_content

\* f"【{doc.metadata['条款']}】{doc.page_content}"
Block(doc) ==
    <<"[", DictGet(doc.metadata, "clause", "N/A"), "]">> \o doc.page_content

RECURSIVE Join(_, _)
\* sep.join(parts)
Join(sep, parts) ==
    IF parts = <<>> THEN <<>>
    ELSE IF Len(parts) = 1 THEN parts[1]
    ELSE parts[1] \o sep \o Join(sep, Tail(parts))

\* context = "\n\n".join([block for doc in retrieved_docs])
Context(retrieved_docs) ==
    Join(<<"NLNL">>, [i \in 1..Len(retrieved_docs) |-> Block(retrieved_docs[i])])

\* The template "根据上下文回答问题：\n\n上下文：\n{context}\n\n问题：{question}"
\* filled by format_messages(context=context, question=query).
FormatMessages(context, question) ==
    <<"HEAD">> \o context \o <<"NLNL", "QUESTION">> \o question

\* One pass of the loop body for a question: retrieve with k = DEFAULT_K,
\* compose the prompt, invoke the chat model; any exception is caught and
\* reported.  sent holds the prompts handed to the chat model.
AnswerQuestion(c, handle, query) ==
    UNION {IF r.status = "error"
           THEN {[status |-> "error", loaded |-> r.loaded,
                  retrieved |-> <<>>, sent |-> <<>>]}
           ELSE {[status |-> s, loaded |-> r.loaded, retrieved |-> r.documents,
                  sent |-> << FormatMessages(Context(r.documents), query) >>] :
                    s \in {"answered", "error"}} :
              r \in RetrieveCall(c, handle, query, DEFAULT_K)}

\* embed(chunked_docs, model_path="BAAI/bge-large-zh-v1.5")
BUILD_MODEL == "bge"

\* An entry of the JSON data that is not a mapping (a string, a list): it
\* has no items().
NotAMapping == << <<"text">> >>

\* item.items() exists: the entry is a mapping of keys to texts.
IsMapping(item) == \A p \in 1..Len(item) : Len(item[p]) = 2

\* Mutant: chunk also raises on a mapping that has not exactly one key.
ChunkRaisesUnlessSingleKey(json_data) ==
    \E i \in 1..Len(json_data) :
        ~IsMapping(json_data[i]) \/ Len(json_data[i]) # 1

\* chunk raises (AttributeError at item.items()) on an entry that is not a
\* mapping.
ChunkRaises(json_data) == \E i \in 1..Len(json_data) : ~IsMapping(json_data[i])

\* The JSON files a run of main.py is started on: lists of single-key
\* mappings, and lists with a mapping of two keys, an empty mapping or an
\* entry that is no mapping.
InputFiles ==
    {<<>>,
     << << <<"c1", <<"a">>>> >> >>,
     << << <<"c1", <<"a">>>> >>, << <<"c2", <<"b">>>> >> >>,
     << << <<"c1", <<"a">>>> >>, << <<"c2", <<"a">>>> >> >>,
     << << <<"c1", <<"a">>>>, <<"c2", <<"b">>>> >> >>,
     << <<>> >>,
     << << <<"c1", <<"a">>>> >>, <<>> >>,
     << NotAMapping >>,
     << << <<"c1", <<"a">>>> >>, NotAMapping >>}

\* os.environ.get("OPENAI_API_KEY"): unset or empty ("absent"), or a key.
EnvKeys == {"absent", "sk"}

\* input("请输入OpenAI API Key: ").strip(): a key, nothing, or no line at all
\* (input raises EOFError or KeyboardInterrupt).
TypedKeys == {"sk", "", "eof"}

\* rag.llm(api_key): the chat client is constructed.  The code does not check
\* the key; whether the client library refuses an empty key depends on its
\* version and on the environment.
llm(api_key) == IF api_key = "" THEN {"ok", "error"} ELSE {"ok"}

\* The lines typed at the question prompt, as tokens; "SP" is white space.
RawLines ==
    {<<"SP">>, <<"SP", "QUIT", "SP">>, <<"exit">>, <<"Q">>, <<"tuichu">>,
     <<"a">>, <<"SP", "w">>, <<"quit", "a">>}

RECURSIVE LStrip(_)
\* White space removed from the front.
LStrip(line) ==
    IF line # <<>> /\ Head(line) = "SP" THEN LStrip(Tail(line)) ELSE line

RECURSIVE RStrip(_)
\* White space removed from the end.
RStrip(line) ==
    IF line # <<>> /\ line[Len(line)] = "SP"
    THEN RStrip(SubSeq(line, 1, Len(line) - 1)) ELSE line

\* input(...).strip()
Strip(line) == RStrip(LStrip(line))

\* Mutant: the line is compared with the quit words as typed.
LowerAsTyped(line) == line

\* query.lower()
Lower(line) ==
    [i \in 1..Len(line) |->
        CASE line[i] = "QUIT" -> "quit"
          [] line[i] = "Exit" -> "exit"
          [] line[i] = "Q" -> "q"
          [] OTHER -> line[i]]

\* ['quit', 'exit', '退出', 'q']
QUIT_WORDS == {<<"quit">>, <<"exit">>, <<"tuichu">>, <<"q">>}

\* Mutant: no except clause around the question; a failure ends the run.
AfterQuestionUncaught(status) == IF status = "error" THEN "aborted" ELSE "loop"

\* Where the loop goes after a question: the except clause catches every
\* failure and the loop goes on.
AfterQuestion(status) == "loop"

\* Mutant: the query consumes the collection.
QueryEffectDeletes(c) == delete_collection(c)

\* What retrieve leaves of the collection: collection.query only reads.
QueryEffect(c) == c

(* ------------------------------ test.py -------------------------------- *)

\* generate_answers(vector_db, test_cases, llm_model, k=3) at test.py:200
HARNESS_K == 3

\* The content of the chat model's reply.
Answers == {"reply"}

\* The record generate_answers appends for a test case.
EvaluationRecord(question, answer, contexts, ground_truth) ==
    [question |-> question, answer |-> answer, contexts |-> contexts,
     ground_truth |-> ground_truth]

\* The lists of test cases: the questions with their reference answers.
TestCases ==
    SeqUpTo({[question |-> q, ground_truth |-> "truth"] : q \in Questions},
            MaxCases)

\* Mutant: the texts are collected from the last result to the first.
HarnessContextsReversed(retrieved_docs) ==
    [i \in 1..Len(retrieved_docs) |->
        retrieved_docs[Len(retrieved_docs) + 1 - i].page_content]

\* contexts = [doc.page_content for doc in retrieved_docs]
HarnessContexts(retrieved_docs) ==
    [i \in 1..Len(retrieved_docs) |-> retrieved_docs[i].page_content]

\* context = "\n\n".join(contexts)
HarnessContext(contexts) == Join(<<"NLNL">>, contexts)

\* One pass of the loop of generate_answers for a test case: retrieve with
\* k, compose the prompt, invoke the chat model, append the record.  Nothing
\* is caught: a failure of the retrieval or of the chat call leaves the
\* function.  sent holds the prompts handed to the chat model, records the
\* records appended.
GenerateAnswer(c, handle, case, k) ==
    UNION {IF r.status = "error"
           THEN {[status |-> "error", loaded |-> r.loaded,
                  retrieved |-> <<>>, sent |-> <<>>, records |-> <<>>]}
           ELSE LET contexts == HarnessContexts(r.documents)
                    messages == FormatMessages(HarnessContext(contexts),
                                               case.question)
                IN  {[status |-> "error", loaded |-> r.loaded,
                      retrieved |-> r.documents, sent |-> <<messages>>,
                      records |-> <<>>]}
                    \cup
                    {[status |-> "answered", loaded |-> r.loaded,
                      retrieved |-> r.documents, sent |-> <<messages>>,
                      records |-> << EvaluationRecord(case.question, answer,
                                         contexts, case.ground_truth) >>] :
                        answer \in Answers} :
              r \in RetrieveCall(c, handle, case.question, k)}

(* ------------------------------ state ---------------------------------- *)

VARIABLES
    input,       \* the argument of the pure function under check
    collection,  \* the store's collection named COLLECTION_NAME
    handle,      \* the caller's vector_db: "none", "live" or "stale"
    latest,      \* the most recent build call: its documents, the model that
                 \* embedded them ("none": never embedded) and its status
    ret,         \* the latest call: its name, arguments and outcome
    pc,          \* the position of a program run: "none" outside a run
    log          \* the calls and messages of a program run, in order

vars == <<input, collection, handle, latest, ret, pc, log>>

\* The (identifier, text) units a list of entries holds.
Units(entries) ==
    {<<DictGet(entries[i].metadata, "clause", "N/A"), entries[i].document>> :
        i \in 1..Len(entries)}

\* The (identifier, text) units of a list of documents.
DocUnits(documents) ==
    {<<DictGet(documents[i].metadata, "clause", "N/A"), documents[i].page_content>> :
        i \in 1..Len(documents)}

NoBuild == [documents |-> <<>>, model_path |-> "none", status |-> "none"]

Init ==
    /\ input = <<>>
    /\ collection = NoCollection
    /\ handle = "none"
    /\ latest = NoBuild
    /\ ret = NoCall
    /\ pc = "none"
    /\ log = <<>>

\* A call build_vector_db(documents), the documents embedded by model_path
\* or never embedded.  A failed call leaves the caller with the handle it
\* had, whose collection is gone.  replaced holds the units the collection
\* held when the call began, existed whether there was a collection.
BuildCall(documents, model_path) ==
    \E o \in build_vector_db(collection, documents) :
        /\ collection' = o.collection
        /\ handle' = IF o.status = "ok" THEN "live"
                     ELSE IF handle = "none" THEN "none" ELSE "stale"
        /\ latest' = [documents |-> documents, model_path |-> model_path,
                      status |-> o.status]
        /\ ret' = [op |-> "build", documents |-> documents, status |-> o.status,
                   replaced |-> Units(collection.entries),
                   existed |-> collection.exists]
        /\ UNCHANGED <<input, pc, log>>

\* main.py steps 3 and 4: embed(units, model_path), then build_vector_db.
Index(units, model_path) == BuildCall(embed(units, model_path), model_path)

\* build_vector_db on documents that were never embedded.
BuildRaw(units) == BuildCall(units, "none")

\* A call of retrieve on the caller's handle.
Retrieve(query, k) ==
    /\ handle # "none"
    /\ \E o \in retrieve(collection, handle, query, k) :
          ret' = [op |-> "retrieve", query |-> query, top_k |-> k, outcome |-> o]
    /\ UNCHANGED <<input, collection, handle, latest, pc, log>>

\* The query test of vector_db.py, right after a build: the collection is
\* queried with the stored vector of the document at a position.  replaced
\* is carried over from the build.
SelfQuery(position) ==
    /\ ret.op = "build" /\ ret.status = "ok"
    /\ position \in 1..Len(ret.documents)
    /\ \E o \in QueryOutcomes(collection, handle,
                    DictGet(ret.documents[position].metadata, "embedding", <<>>),
                    TEST_N_RESULTS) :
          ret' = [op |-> "selfquery", documents |-> ret.documents,
                  replaced |-> ret.replaced, outcome |-> o,
                  position |-> position]
    /\ UNCHANGED <<input, collection, handle, latest, pc, log>>

\* One question of the interactive loop.
Ask(query) ==
    /\ handle # "none"
    /\ \E o \in AnswerQuestion(collection, handle, query) :
          ret' = [op |-> "ask", query |-> query, outcome |-> o]
    /\ UNCHANGED <<input, collection, handle, latest, pc, log>>

Next ==
    \/ \E units \in ChunkedDocs(IndexedTexts, MaxDocs), model_path \in Models :
          Index(units, model_path)
    \/ \E units \in ChunkedDocs(IndexedTexts, MaxDocs) : BuildRaw(units)
    \/ \E query \in Queries, k \in -1..MaxK : Retrieve(query, k)
    \/ \E position \in 1..MaxDocs : SelfQuery(position)
    \/ \E query \in Questions : Ask(query)

Spec == Init /\ [][Next]_vars

(* --------------------- chunk as a pure function ------------------------ *)

InitChunk ==
    /\ input \in JsonData
    /\ collection = NoCollection
    /\ handle = "none"
    /\ latest = NoBuild
    /\ ret = NoCall
    /\ pc = "none"
    /\ log = <<>>

\* A call chunk(input).
Chunk ==
    /\ ret = NoCall
    /\ ret' = [op |-> "chunk", documents |-> chunk(input)]
    /\ UNCHANGED <<input, collection, handle, latest, pc, log>>

NextChunk == Chunk

SpecChunk == InitChunk /\ [][NextChunk]_vars

(* --------------------- embed as a pure function ------------------------ *)

InitEmbed ==
    /\ input \in EmbedInputs(Texts, MaxDocs)
    /\ collection = NoCollection
    /\ handle = "none"
    /\ latest = NoBuild
    /\ ret = NoCall
    /\ pc = "none"
    /\ log = <<>>

\* A call embed(input, model_path).
Embed(model_path) ==
    /\ ret = NoCall
    /\ ret' = [op |-> "embed", documents |-> embed(input, model_path),
               model_path |-> model_path, calls |-> EmbedCalls(input)]
    /\ UNCHANGED <<input, collection, handle, latest, pc, log>>

NextEmbed == \E model_path \in Models : Embed(model_path)

SpecEmbed == InitEmbed /\ [][NextEmbed]_vars

(* ------------------- the interactive program, main.py ------------------ *)

\* The calls an outcome of a loop pass made, in order.
CallsOf(o) ==
    (IF o.loaded = <<>> THEN <<"load_failed">> ELSE <<"load", "query">>)
    \o (IF o.sent = <<>> THEN <<>> ELSE <<"chat">>)

InitMain ==
    /\ input \in InputFiles
    /\ collection = NoCollection
    /\ handle = "none"
    /\ latest = NoBuild
    /\ ret = NoCall
    /\ pc = "start"
    /\ log = <<>>

\* main.py steps 1 to 4: the JSON data is chunked, embedded with
\* BUILD_MODEL and built into the index.  An exception of any step ends the
\* run.
Startup ==
    /\ pc = "start"
    /\ IF ChunkRaises(input)
       THEN /\ pc' = "aborted"
            /\ log' = <<"chunk">>
            /\ ret' = [op |-> "startup", status |-> "error"]
            /\ UNCHANGED <<collection, handle, latest>>
       ELSE \/ /\ pc' = "aborted"
               /\ log' = <<"chunk", "load_failed">>
               /\ ret' = [op |-> "startup", status |-> "error"]
               /\ UNCHANGED <<collection, handle, latest>>
            \/ \E o \in build_vector_db(collection,
                                          embed(chunk(input), BUILD_MODEL)) :
                  /\ collection' = o.collection
                  /\ handle' = IF o.status = "ok" THEN "live" ELSE "none"
                  /\ latest' = [documents |-> embed(chunk(input), BUILD_MODEL),
                                model_path |-> BUILD_MODEL, status |-> o.status]
                  /\ ret' = [op |-> "startup", status |-> o.status]
                  /\ pc' = IF o.status = "ok" THEN "key" ELSE "aborted"
                  /\ log' = <<"chunk", "load", "embed", "build">>
    /\ UNCHANGED input

\* main.py step 5: the API key is taken from the environment or, when it is
\* not there, typed at a prompt; the chat client is constructed with it.
Key(env, typed) ==
    /\ pc = "key"
    /\ IF env # "absent"
       THEN /\ pc' = "loop"
            /\ log' = log \o <<"key">>
            /\ ret' = [op |-> "key", status |-> "ok", api_key |-> env,
                       environ |-> env]
       ELSE IF typed = "eof"
       THEN /\ pc' = "aborted"
            /\ log' = log \o <<"ask_key", "nokey", "abort">>
            /\ ret' = [op |-> "key", status |-> "error", api_key |-> "",
                       environ |-> env]
       ELSE \E made \in llm(typed) :
            /\ pc' = IF made = "ok" THEN "loop" ELSE "aborted"
            /\ log' = log \o <<"ask_key", IF typed = "" THEN "nokey" ELSE "key">>
            /\ ret' = [op |-> "key", status |-> made, api_key |-> typed,
                       environ |-> env]
    /\ UNCHANGED <<input, collection, handle, latest>>

\* The lines the loop has read so far.
LinesRead(events) ==
    Len(SelectSeq(events, LAMBDA e : e \in {"bye", "reject", "answer", "error"}))

\* One pass of the loop, main.py 96-156, for a line typed at the prompt.
Line(raw) ==
    /\ pc = "loop"
    /\ LinesRead(log) < MaxLines
    /\ LET query == Strip(raw)
       IN  IF Lower(query) \in QUIT_WORDS
           THEN /\ pc' = "done"
                /\ log' = log \o <<"bye">>
                /\ ret' = [op |-> "line", query |-> query, outcome |-> NoCall,
                           raw |-> raw, printed |-> "bye"]
                /\ UNCHANGED collection
           ELSE IF query = <<>>
           THEN /\ pc' = "loop"
                /\ log' = log \o <<"reject">>
                /\ ret' = [op |-> "line", query |-> query, outcome |-> NoCall,
                           raw |-> raw, printed |-> "empty"]
                /\ UNCHANGED collection
           ELSE \E o \in AnswerQuestion(collection, handle, query) :
                /\ pc' = AfterQuestion(o.status)
                /\ log' = log \o CallsOf(o)
                               \o <<IF o.status = "error" THEN "error" ELSE "answer">>
                /\ ret' = [op |-> "line", query |-> query, outcome |-> o,
                           raw |-> raw,
                           printed |-> IF o.status = "error" THEN "error"
                                       ELSE "answer"]
                /\ collection' = IF o.loaded = <<>> THEN collection
                                 ELSE QueryEffect(collection)
    /\ UNCHANGED <<input, handle, latest>>

\* Reading the line fails: input() raises EOFError at the end of the input
\* or KeyboardInterrupt; neither is caught in main and the handlers at
\* main.py 162-167 end the program.
InputEnds ==
    /\ pc = "loop"
    /\ pc' = "aborted"
    /\ log' = log \o <<"abort">>
    /\ ret' = [op |-> "eof"]
    /\ UNCHANGED <<input, collection, handle, latest>>

NextMain ==
    \/ Startup
    \/ \E env \in EnvKeys, typed \in TypedKeys : Key(env, typed)
    \/ \E raw \in RawLines : Line(raw)
    \/ InputEnds

SpecMain == InitMain /\ [][NextMain]_vars

(* ------------------- the evaluation harness, test.py ------------------- *)

\* The indexes test.py builds before generate_answers: the units embedded
\* with BAAI/bge-large-zh-v1.5 (test.py:168) and built into a new store.
InitTest ==
    /\ input \in TestCases
    /\ \E units \in ChunkedDocs(IndexedTexts, MaxDocs) \ {<<>>} :
          /\ collection = add(create_collection(NoCollection),
                              embed(units, RETRIEVE_MODEL))
          /\ latest = [documents |-> embed(units, RETRIEVE_MODEL),
                       model_path |-> RETRIEVE_MODEL, status |-> "ok"]
    /\ handle = "live"
    /\ ret = [op |-> "generate", records |-> <<>>, outcome |-> NoCall,
              position |-> 0]
    /\ pc = "generate"
    /\ log = <<>>

\* One pass of the loop of generate_answers, for the next test case.
GenerateCase ==
    /\ pc = "generate"
    /\ Len(ret.records) < Len(input)
    /\ \E o \in GenerateAnswer(collection, handle,
                                input[Len(ret.records) + 1], HARNESS_K) :
          /\ ret' = [op |-> "generate", records |-> ret.records \o o.records,
                     outcome |-> o, position |-> Len(ret.records) + 1]
          /\ pc' = IF o.status = "error" THEN "aborted" ELSE "generate"
          /\ log' = log \o CallsOf(o)
    /\ UNCHANGED <<input, collection, handle, latest>>

\* generate_answers returns and run_ragas_evaluation hands the records to
\* the scoring function; an error of the scoring is caught and reported.
Score ==
    /\ pc = "generate"
    /\ Len(ret.records) = Len(input)
    /\ ret' = [op |-> "score", records |-> ret.records, data |-> ret.records]
    /\ pc' = "done"
    /\ log' = log \o <<"score">>
    /\ UNCHANGED <<input, collection, handle, latest>>

NextTest == GenerateCase \/ Score

SpecTest == InitTest /\ [][NextTest]_vars

(* ---- raw-data preparation, convert_to_json.py and gain_data.py -------- *)

\* The characters of a text: "SP" is a blank, "NL" a line break.
WhiteSpace == {"SP", "NL"}

Digits == {"0", "1", "2", "3", "4", "5", "6", "7", "8", "9"}

\* chinese_dict: the value of each numeral character.
chinese_dict ==
    [ch \in {"ling", "yi", "er", "san", "si", "wu", "liu", "qi", "ba", "jiu",
             "shi", "bai", "qian", "wan"} |->
        CASE ch = "ling" -> 0 [] ch = "yi" -> 1 [] ch = "er" -> 2
          [] ch = "san" -> 3 [] ch = "si" -> 4 [] ch = "wu" -> 5
          [] ch = "liu" -> 6 [] ch = "qi" -> 7 [] ch = "ba" -> 8
          [] ch = "jiu" -> 9 [] ch = "shi" -> 10 [] ch = "bai" -> 100
          [] ch = "qian" -> 1000 [] ch = "wan" -> 10000]

\* str.isdigit(): not empty and every character a digit.
IsDigit(text) == text # <<>> /\ \A i \in 1..Len(text) : text[i] \in Digits

\* The value of one digit character.
DigitValue(ch) ==
    CASE ch = "0" -> 0 [] ch = "1" -> 1 [] ch = "2" -> 2 [] ch = "3" -> 3
      [] ch = "4" -> 4 [] ch = "5" -> 5 [] ch = "6" -> 6 [] ch = "7" -> 7
      [] ch = "8" -> 8 [] ch = "9" -> 9

RECURSIVE ParseInt(_)
\* int(chinese_num) of a string of digits.
ParseInt(text) ==
    IF text = <<>> THEN 0
    ELSE 10 * ParseInt(SubSeq(text, 1, Len(text) - 1))
           + DigitValue(text[Len(text)])

RECURSIVE NumeralLoop(_, _, _)
\* The loop of chinese_to_number over the characters left, from the running
\* result and temp; characters outside chinese_dict are passed over.
NumeralLoop(chars, result, temp) ==
    IF chars = <<>> THEN result + temp
    ELSE IF Head(chars) \notin DOMAIN chinese_dict
         THEN NumeralLoop(Tail(chars), result, temp)
    ELSE LET num == chinese_dict[Head(chars)]
         IN  IF num >= 10
             THEN NumeralLoop(Tail(chars),
                              result + (IF temp = 0 THEN 1 ELSE temp) * num, 0)
             ELSE NumeralLoop(Tail(chars), result,
                              IF temp > 0 THEN temp * 10 + num ELSE num)

\* chinese_to_number(chinese_num)
chinese_to_number(chinese_num) ==
    IF chinese_num = <<>> THEN 0
    ELSE IF IsDigit(chinese_num) THEN ParseInt(chinese_num)
    ELSE NumeralLoop(chinese_num, 0, 0)

RECURSIVE LStripWhite(_)
\* White space removed from the front of a text.
LStripWhite(text) ==
    IF text # <<>> /\ Head(text) \in WhiteSpace
    THEN LStripWhite(Tail(text)) ELSE text

RECURSIVE RStripWhite(_)
\* White space removed from the end of a text.
RStripWhite(text) ==
    IF text # <<>> /\ text[Len(text)] \in WhiteSpace
    THEN RStripWhite(SubSeq(text, 1, Len(text) - 1)) ELSE text

\* str.strip()
StripWhite(text) == RStripWhite(LStripWhite(text))

\* '...' in context
HasEllipsis(context) ==
    \E i \in 1..(Len(context) - 2) :
        context[i] = "." /\ context[i + 1] = "." /\ context[i + 2] = "."

RECURSIVE CollapseWhite(_)
\* re.sub(r'\s+', ' ', context): every run of white space becomes one blank.
CollapseWhite(context) ==
    IF context = <<>> THEN <<>>
    ELSE IF Head(context) \in WhiteSpace
         THEN <<"SP">> \o CollapseWhite(LStripWhite(context))
    ELSE <<Head(context)>> \o CollapseWhite(Tail(context))

RECURSIVE RStripDigits(_)
\* The digits removed from the end of a text.
RStripDigits(text) ==
    IF text # <<>> /\ text[Len(text)] \in Digits
    THEN RStripDigits(SubSeq(text, 1, Len(text) - 1)) ELSE text

\* re.sub(r'\d+\s*$', '', context): a run of digits that only white space
\* follows is removed together with that white space.
RemovePageNumber(context) ==
    LET head == RStripWhite(context)
    IN  IF head # <<>> /\ head[Len(head)] \in Digits
        THEN RStripDigits(head) ELSE context

\* The context of a match as the loop cleans it.
CleanContext(context) ==
    RemovePageNumber(StripWhite(CollapseWhite(StripWhite(context))))

\* A match of the pattern is passed over: a short context with an ellipsis
\* (a line of the table of contents).
IsContentsLine(context) ==
    Len(StripWhite(context)) < 20 /\ HasEllipsis(StripWhite(context))

\* if context and len(context) > 10
HasSubstance(context) == context # <<>> /\ Len(context) > 10

\* key = f"第{number}条"
ClauseKey(number) == <<"di">> \o StripWhite(number) \o <<"tiao">>

\* The keys of a list of one-pair mappings.
KeysOf(result) == {result[i][1][1] : i \in 1..Len(result)}

\* Mutant: a key seen before replaces the entry kept for it.
KeepLast(result, key, context) ==
    IF key \in KeysOf(result)
    THEN [i \in 1..Len(result) |->
             IF result[i][1][1] = key THEN << <<key, context>> >>
             ELSE result[i]]
    ELSE Append(result, << <<key, context>> >>)

\* if key not in seen_keys: seen_keys.add(key); result.append({key: context})
\* (seen_keys is the set of the keys of result throughout).
KeepFirst(result, key, context) ==
    IF key \in KeysOf(result) THEN result
    ELSE Append(result, << <<key, context>> >>)

RECURSIVE CollectClauses(_, _)
\* for match in matches: ... ; a match is (number, title, context).
CollectClauses(matches, result) ==
    IF matches = <<>> THEN result
    ELSE LET match == Head(matches)
             context == CleanContext(match[3])
         IN  IF IsContentsLine(match[3]) \/ ~HasSubstance(context)
             THEN CollectClauses(Tail(matches), result)
             ELSE CollectClauses(Tail(matches),
                                 KeepFirst(result, ClauseKey(match[1]), context))

\* sort_key(item): the number in the key of the item.
sort_key(item) ==
    chinese_to_number(SelectSeq(item[1][1],
                                LAMBDA ch : ch \notin {"di", "tiao"}))

\* Mutant: an item goes in front of the items with its sort key.
InsertBeforeEqual(sorted, item) ==
    LET before == SelectSeq(sorted, LAMBDA x : sort_key(x) < sort_key(item))
        after == SelectSeq(sorted, LAMBDA x : sort_key(x) >= sort_key(item))
    IN  before \o <<item>> \o after

\* An item put into a sorted list behind every item whose sort key is not
\* greater: list.sort is stable.
InsertSorted(sorted, item) ==
    LET before == SelectSeq(sorted, LAMBDA x : sort_key(x) <= sort_key(item))
        after == SelectSeq(sorted, LAMBDA x : sort_key(x) > sort_key(item))
    IN  before \o <<item>> \o after

RECURSIVE SortByKey(_)
\* result.sort(key=sort_key)
SortByKey(result) ==
    IF result = <<>> THEN <<>>
    ELSE InsertSorted(SortByKey(SubSeq(result, 1, Len(result) - 1)),
                      result[Len(result)])

\* The list convert_txt_to_json (convert_to_json.py) hands to json.dump.
convert_txt_to_json(matches) == SortByKey(CollectClauses(matches, <<>>))

\* The list convert_to_json (gain_data.py) hands to json.dump: the same
\* loop and the same sort.
convert_to_json(matches) == SortByKey(CollectClauses(matches, <<>>))

\* A text of n characters ch.
Rep(ch, n) == [i \in 1..n |-> ch]

\* The clause numbers the pattern captures: 三, 3, 十二, 12.
Numbers == {<<"san">>, <<"3">>, <<"shi", "er">>, <<"1", "2">>}

\* The contexts the pattern captures: a line of the table of contents, a
\* text of ten characters before its page number, and two clause bodies, the
\* second broken over two lines.
Contexts ==
    {<<"x", "x", ".", ".", ".", "5">>,
     Rep("x", 9) \o <<"SP", "1", "2", "NL">>,
     Rep("x", 12),
     Rep("y", 11) \o <<"NL", "SP", "y">>}

\* re.findall(pattern, content, re.DOTALL): the matches in the order of the
\* text.
Matches == {<<number, <<"title">>, context>> : number \in Numbers, context \in Contexts}

\* The scripts that hold the conversion.
Scripts == {"convert_to_json.py", "gain_data.py"}

\* The text file was read and matched.
InitConvert ==
    /\ input \in SeqUpTo(Matches, MaxMatches)
    /\ collection = NoCollection
    /\ handle = "none"
    /\ latest = NoBuild
    /\ ret = NoCall
    /\ pc = "convert"
    /\ log = <<>>

\* The conversion of one script runs: the list is built, sorted and written
\* to the JSON file; when the file cannot be written the conversion reports
\* the failure and returns False.
Convert(script) ==
    /\ pc = "convert"
    /\ LET result == IF script = "gain_data.py" THEN convert_to_json(input)
                     ELSE convert_txt_to_json(input)
       IN  \E status \in {"ok", "error"} :
              /\ ret' = [op |-> "convert", status |-> status,
                         script |-> script,
                         written |-> IF status = "ok" THEN result ELSE <<>>]
              /\ pc' = IF status = "ok" THEN "done" ELSE "aborted"
              /\ log' = <<"convert">>
    /\ UNCHANGED <<input, collection, handle, latest>>

NextConvert == \E script \in Scripts : Convert(script)

SpecConvert == InitConvert /\ [][NextConvert]_vars

(* ============================ properties =============================== *)

\* The least of two numbers.
Min(x, y) == IF x <= y THEN x ELSE y

\* The latest call is a successful build.
BuildReturned == ret.op = "build" /\ ret.status = "ok"

\* C1: after build_vector_db(documents) returns, the index holds exactly
\* len(documents) entries: entry i has the id doc_i, the text and the vector
\* of documents[i], and as metadata the identifier and the source label of
\* that document without the vector; there is no other entry.
C1_BuildStoresExactlyTheInput ==
    BuildReturned =>
        /\ collection.exists
        /\ Len(collection.entries) = Len(ret.documents)
        /\ \A i \in 1..Len(ret.documents) :
              LET e == collection.entries[i]
                  d == ret.documents[i]
              IN  /\ e.id = <<"doc", i - 1>>
                  /\ e.document = d.page_content
                  /\ e.embedding = DictGet(d.metadata, "embedding", <<>>)
                  /\ e.metadata = << <<"clause", DictGet(d.metadata, "clause", "N/A")>>,
                                     <<"source", SOURCE_LABEL>> >>

\* C1 witness: a build of two documents with the same identifier returned,
\* over a collection that held other units.
C1_Witness ==
    /\ BuildReturned
    /\ Len(ret.documents) = 2
    /\ DictGet(ret.documents[1].metadata, "clause", "N/A")
         = DictGet(ret.documents[2].metadata, "clause", "N/A")
    /\ ret.replaced # {}
    /\ Len(collection.entries) = 2

\* The units the documents of a list of retrieved Documents carry.
ReturnedUnits ==
    IF ret.op = "retrieve" /\ ret.outcome.status = "ok"
    THEN DocUnits(ret.outcome.documents)
    ELSE IF ret.op = "ask"
    THEN DocUnits(ret.outcome.retrieved)
    ELSE IF ret.op = "selfquery" /\ ret.outcome.status = "ok"
    THEN {<<DictGet(ret.outcome.results.metadatas[i], "clause", "N/A"),
            ret.outcome.results.documents[i]>> :
              i \in 1..Len(ret.outcome.results.ids)}
    ELSE {}

\* C2: the index holds exactly the units of the most recent build that
\* returned: a build leaves none of the units it replaced that are not among
\* its own, every query returns units of the most recent build only, and a
\* query right after a build of B over disjoint contents A returns no unit
\* of A.
C2_RebuildReplaces ==
    /\ latest.status = "ok" =>
          /\ Units(collection.entries) = DocUnits(latest.documents)
          /\ Len(collection.entries) = Len(latest.documents)
          /\ ReturnedUnits \subseteq DocUnits(latest.documents)
    /\ BuildReturned =>
          \A u \in ret.replaced \ DocUnits(ret.documents) :
              u \notin Units(collection.entries)
    /\ ret.op = "selfquery" =>
          (ret.replaced \cap DocUnits(ret.documents) = {}
              => ReturnedUnits \cap ret.replaced = {})

\* C2 witness: a query right after a build that replaced a non-empty,
\* disjoint set of units returned two results.
C2_Witness ==
    /\ ret.op = "selfquery"
    /\ ret.replaced # {}
    /\ ret.replaced \cap DocUnits(ret.documents) = {}
    /\ Cardinality(ReturnedUnits) = 2

\* The latest call is retrieve with k >= 1 on a live handle.
RetrievedLive == ret.op = "retrieve" /\ ret.top_k >= 1 /\ handle = "live"

\* The vector retrieve computes for the query of the latest call.
QueryVector == embed_query(RETRIEVE_MODEL, ret.query)

\* The injective maps of the positions of a result list into the entries
\* under which result i is entry p[i] annotated: its text, its identifier,
\* its source label and its raw distance to the query vector.
Provenances(docs, entries, qv) ==
    {p \in [1..Len(docs) -> 1..Len(entries)] :
        /\ \A i, j \in 1..Len(docs) : p[i] = p[j] => i = j
        /\ \A i \in 1..Len(docs) :
              /\ docs[i].page_content = entries[p[i]].document
              /\ docs[i].metadata =
                    << <<"clause", DictGet(entries[p[i]].metadata, "clause", "N/A")>>,
                       <<"source", DictGet(entries[p[i]].metadata, "source", "N/A")>>,
                       <<"distance", Distance(entries[p[i]].embedding, qv)>> >>}

\* C3: for k >= 1 retrieve returns the k nearest entries in ascending order
\* of distance: the distances do not decrease along the list, no entry left
\* out is strictly closer than a returned one, each item carries the
\* identifier, source label and raw distance of the entry whose text it
\* carries, and nothing is dropped (min(k, N) items, distinct entries).
C3_KNearestAscending ==
    (RetrievedLive /\ ret.outcome.status = "ok") =>
        LET docs == ret.outcome.documents
            entries == collection.entries
            dist(i) == DictGet(docs[i].metadata, "distance", -1)
        IN  /\ Len(docs) = Min(ret.top_k, Len(entries))
            /\ \A i, j \in 1..Len(docs) : i < j => dist(i) <= dist(j)
            /\ \E p \in Provenances(docs, entries, QueryVector) :
                  \A e \in 1..Len(entries) :
                      (\A i \in 1..Len(docs) : p[i] # e) =>
                          \A i \in 1..Len(docs) :
                              Distance(entries[e].embedding, QueryVector) >= dist(i)

\* C3 witness: k = 1 on an index of two entries at different distances; the
\* entry left out is strictly farther.
C3_Witness ==
    /\ RetrievedLive /\ ret.outcome.status = "ok"
    /\ ret.top_k = 1
    /\ Len(collection.entries) = 2
    /\ Len(ret.outcome.documents) = 1
    /\ \E e \in 1..2 :
          Distance(collection.entries[e].embedding, QueryVector)
            > DictGet(ret.outcome.documents[1].metadata, "distance", -1)

\* C4: for k >= 1 on an index of N entries retrieve raises no error and
\* returns exactly min(k, N) results; when k > N every entry is returned
\* exactly once, in ascending order of distance.
C4_ReturnsMinOfKAndN ==
    RetrievedLive =>
        /\ ret.outcome.status = "ok"
        /\ Len(ret.outcome.documents) = Min(ret.top_k, Len(collection.entries))
        /\ ret.top_k > Len(collection.entries) =>
              /\ \E p \in Provenances(ret.outcome.documents, collection.entries,
                                      QueryVector) :
                    \A e \in 1..Len(collection.entries) :
                        \E i \in 1..Len(ret.outcome.documents) : p[i] = e
              /\ \A i, j \in 1..Len(ret.outcome.documents) :
                    i < j => DictGet(ret.outcome.documents[i].metadata, "distance", -1)
                               <= DictGet(ret.outcome.documents[j].metadata, "distance", -1)

\* C4 witness: k = 3 on an index of two entries returned both.
C4_Witness ==
    /\ RetrievedLive
    /\ ret.top_k = 3
    /\ Len(collection.entries) = 2
    /\ ret.outcome.status = "ok"
    /\ Len(ret.outcome.documents) = 2

\* C5: retrieve with k = 0 or k < 0 ends in an error and returns no result
\* list, whatever the index and the query.
C5_NonPositiveKRejected ==
    (ret.op = "retrieve" /\ ret.top_k <= 0) =>
        /\ ret.outcome.status = "error"
        /\ "documents" \notin DOMAIN ret.outcome

\* C5 witness: retrieve with a negative k on a live, non-empty index ended
\* in an error.
C5_Witness ==
    /\ ret.op = "retrieve"
    /\ ret.top_k < 0
    /\ handle = "live"
    /\ Len(collection.entries) >= 1
    /\ ret.outcome.status = "error"

\* The stored vector of document i of the list the latest call was about.
StoredVector(i) == DictGet(ret.documents[i].metadata, "embedding", <<>>)

\* C6 as claimed: building and then querying with the stored vector of unit
\* i returns unit i first, at distance 0, also when another unit has the
\* same vector.
C6_SelfQueryReturnsTheUnit ==
    ret.op = "selfquery" =>
        /\ ret.outcome.status = "ok"
        /\ Len(ret.outcome.results.ids) >= 1
        /\ ret.outcome.results.ids[1] = <<"doc", ret.position - 1>>
        /\ ret.outcome.results.distances[1] = 0

\* C6, amended: building and then querying with the stored vector of unit i
\* returns first, at distance 0, a unit whose stored vector is that of unit
\* i; it is unit i itself when no other unit of the list has the same vector.
C6_SelfQueryReturnsTheVector ==
    ret.op = "selfquery" =>
        /\ ret.outcome.status = "ok"
        /\ Len(ret.outcome.results.ids) >= 1
        /\ ret.outcome.results.distances[1] = 0
        /\ \E j \in 1..Len(ret.documents) :
              /\ ret.outcome.results.ids[1] = <<"doc", j - 1>>
              /\ StoredVector(j) = StoredVector(ret.position)
              /\ ret.outcome.results.documents[1] = ret.documents[j].page_content
        /\ (\A j \in 1..Len(ret.documents) :
                j # ret.position => StoredVector(j) # StoredVector(ret.position))
              => ret.outcome.results.ids[1] = <<"doc", ret.position - 1>>

\* C6 witness: two units have the same vector and the query with the vector
\* of one returned the other first, at distance 0.
C6_Witness ==
    /\ ret.op = "selfquery"
    /\ ret.outcome.status = "ok"
    /\ Len(ret.outcome.results.ids) = 2
    /\ ret.outcome.results.ids[1] # <<"doc", ret.position - 1>>
    /\ ret.outcome.results.distances[1] = 0

\* The identifier a document carries.
ClauseOf(doc) == DictGet(doc.metadata, "clause", "N/A")

\* The source label a document carries.
SourceOf(doc) == DictGet(doc.metadata, "source", "N/A")

\* C7 as claimed: chunk of N entries returns exactly N units, the i-th with
\* the identifier and the text of the i-th entry and the constant source
\* label, whatever number of keys an entry has.
C7_ChunkOneUnitPerEntry ==
    ret.op = "chunk" =>
        /\ Len(ret.documents) = Len(input)
        /\ \A i \in 1..Len(input) :
              /\ \E p \in 1..Len(input[i]) :
                    /\ ClauseOf(ret.documents[i]) = input[i][p][1]
                    /\ ret.documents[i].page_content = input[i][p][2]
              /\ SourceOf(ret.documents[i]) = SOURCE_LABEL

RECURSIVE PairsBefore(_, _)
\* The number of key/text pairs of the entries before entry i.
PairsBefore(json_data, i) ==
    IF i <= 1 THEN 0
    ELSE PairsBefore(json_data, i - 1) + Len(json_data[i - 1])

\* C7, amended: chunk returns one unit per key/text pair, entries in input
\* order and the pairs of an entry in their order, each unit with its key as
\* identifier, its text unchanged (an empty text too) and the constant
\* source label, and nothing else; for N single-key entries that is exactly
\* N units, the i-th for the i-th entry.
C7_ChunkOneUnitPerPair ==
    ret.op = "chunk" =>
        /\ Len(ret.documents) = PairsBefore(input, Len(input) + 1)
        /\ \A i \in 1..Len(input) : \A p \in 1..Len(input[i]) :
              LET doc == ret.documents[PairsBefore(input, i) + p]
              IN  /\ ClauseOf(doc) = input[i][p][1]
                  /\ doc.page_content = input[i][p][2]
                  /\ SourceOf(doc) = SOURCE_LABEL
                  /\ Len(doc.metadata) = 2
        /\ (\A i \in 1..Len(input) : Len(input[i]) = 1) =>
              /\ Len(ret.documents) = Len(input)
              /\ \A i \in 1..Len(input) :
                    /\ ClauseOf(ret.documents[i]) = input[i][1][1]
                    /\ ret.documents[i].page_content = input[i][1][2]

\* C7 witness: two single-key entries, the second with an empty text, gave
\* two units.
C7_Witness ==
    /\ ret.op = "chunk"
    /\ Len(input) = 2
    /\ Len(input[1]) = 1 /\ Len(input[2]) = 1
    /\ input[2][1][2] = <<>>
    /\ Len(ret.documents) = 2
    /\ ret.documents[2].page_content = <<>>

\* C8: embed of M units issues one batched embedding call, with the M texts
\* in order, and returns the M units in the same order, unit i with the i-th
\* vector of the batch; the text, the identifier and the source label of
\* every unit are unchanged.
C8_EmbedOneBatchSameUnits ==
    ret.op = "embed" =>
        /\ Len(ret.calls) = 1
        /\ Len(ret.calls[1]) = Len(input)
        /\ Len(ret.documents) = Len(input)
        /\ \A i \in 1..Len(input) :
              /\ ret.calls[1][i] = input[i].page_content
              /\ ret.documents[i].page_content = input[i].page_content
              /\ ClauseOf(ret.documents[i]) = ClauseOf(input[i])
              /\ SourceOf(ret.documents[i]) = SourceOf(input[i])
              /\ DictGet(ret.documents[i].metadata, "embedding", <<>>)
                    = EmbedText(ret.model_path, ret.calls[1][i])
              /\ Len(ret.documents[i].metadata) = 3

\* C8 witness: two units with different texts were embedded and carry
\* different vectors.
C8_Witness ==
    /\ ret.op = "embed"
    /\ Len(input) = 2
    /\ input[1].page_content # input[2].page_content
    /\ DictGet(ret.documents[1].metadata, "embedding", <<>>)
         # DictGet(ret.documents[2].metadata, "embedding", <<>>)

OccursAt(seq, part, at) ==
    /\ at >= 1
    /\ at + Len(part) - 1 <= Len(seq)
    /\ \A i \in 1..Len(part) : seq[at + i - 1] = part[i]

\* part occurs in seq.
Contains(seq, part) == \E at \in 1..(Len(seq) + 1) : OccursAt(seq, part, at)

RECURSIVE BlockStart(_, _)
\* The position in the prompt at which the block of result i starts: after
\* the template's head, the earlier blocks (three tokens around the
\* identifier and the text) and a separator after each.
BlockStart(docs, i) ==
    IF i <= 1 THEN 2
    ELSE BlockStart(docs, i - 1) + 3 + Len(docs[i - 1].page_content) + 1

\* The position of the last token of the context in the prompt.
ContextEnd(docs) ==
    IF docs = <<>> THEN 1
    ELSE BlockStart(docs, Len(docs)) + 3 + Len(docs[Len(docs)].page_content) - 1

\* C10: the prompt sent for a question is the fixed template filled with the
\* question and with the context, which is one block [identifier]text per
\* retrieved result, in retrieval order, separated by a blank line; so the
\* prompt contains every retrieved identifier, every retrieved text and the
\* question.  At most one prompt is sent, none when retrieval failed.
C10_PromptComposition ==
    ret.op = "ask" =>
        LET docs == ret.outcome.retrieved
            sent == ret.outcome.sent
        IN  /\ Len(sent) <= 1
            /\ ret.outcome.status = "answered" => Len(sent) = 1
            /\ sent # <<>> =>
                  /\ sent[1][1] = "HEAD"
                  /\ \A i \in 1..Len(docs) :
                        /\ OccursAt(sent[1],
                                <<"[", ClauseOf(docs[i]), "]">> \o docs[i].page_content,
                                BlockStart(docs, i))
                        /\ i > 1 => sent[1][BlockStart(docs, i) - 1] = "NLNL"
                        /\ Contains(sent[1], <<ClauseOf(docs[i])>>)
                        /\ Contains(sent[1], docs[i].page_content)
                  /\ OccursAt(sent[1], <<"NLNL", "QUESTION">> \o ret.query,
                              ContextEnd(docs) + 1)
                  /\ Len(sent[1]) = ContextEnd(docs) + 2 + Len(ret.query)
                  /\ Contains(sent[1], ret.query)

\* C10 witness: a question was answered from two retrieved results with
\* different identifiers.
C10_Witness ==
    /\ ret.op = "ask"
    /\ ret.outcome.status = "answered"
    /\ Len(ret.outcome.retrieved) = 2
    /\ ClauseOf(ret.outcome.retrieved[1]) # ClauseOf(ret.outcome.retrieved[2])
    /\ Len(ret.outcome.sent) = 1

\* C11: for the same index, question and k, the prompt the harness sends to
\* the chat model is the prompt the interactive loop composes from the same
\* retrieved results: the template filled with the question and with the
\* blocks [identifier]text joined by a blank line.
C11_HarnessSendsTheInteractivePrompt ==
    (ret.op = "generate" /\ ret.position >= 1) =>
        \A i \in 1..Len(ret.outcome.sent) :
            ret.outcome.sent[i]
              = FormatMessages(Context(ret.outcome.retrieved),
                               input[ret.position].question)

\* The (identifier, text) pairs of the JSON data.
InputPairs ==
    UNION {{<<input[i][p][1], input[i][p][2]>> : p \in 1..Len(input[i])} :
              i \in 1..Len(input)}

\* The line the loop handled last was a question.
AskedQuestion == ret.op = "line" /\ ret.printed \in {"answer", "error"}

\* C12: in the interactive loop a failure of the retrieval or of the chat
\* call for a question prints an error message and does not end the run: the
\* loop is back at the prompt.  Whatever failed before, the loop works on
\* the index the startup built, through a live handle, so the question after
\* a failed one is retrieved as a first question is.
C12_LoopSurvivesFailures ==
    /\ (AskedQuestion /\ ret.outcome.status = "error") =>
          /\ pc = "loop"
          /\ ret.printed = "error"
          /\ log[Len(log)] = "error"
    /\ (AskedQuestion /\ ret.outcome.status # "error") =>
          /\ ret.printed = "answer"
          /\ Len(ret.outcome.sent) = 1
    /\ pc = "loop" =>
          /\ handle = "live"
          /\ collection.exists
          /\ Units(collection.entries) = InputPairs
          /\ Len(collection.entries) = PairsBefore(input, Len(input) + 1)
    /\ (AskedQuestion /\ ret.outcome.loaded # <<>>) =>
          /\ Len(ret.outcome.retrieved)
               = Min(DEFAULT_K, PairsBefore(input, Len(input) + 1))
          /\ \A i \in 1..Len(ret.outcome.retrieved) :
                <<ClauseOf(ret.outcome.retrieved[i]),
                  ret.outcome.retrieved[i].page_content>> \in InputPairs

\* C12 witness: a question was answered from two retrieved units after an
\* earlier question of the run had failed.
C12_Witness ==
    /\ AskedQuestion
    /\ ret.printed = "answer"
    /\ Len(ret.outcome.retrieved) = 2
    /\ \E i \in 1..Len(log) : log[i] = "error"

\* trimmed is the line raw without the white space at its two ends.
IsTrimOf(trimmed, raw) ==
    /\ trimmed # <<>> => trimmed[1] # "SP" /\ trimmed[Len(trimmed)] # "SP"
    /\ \E lead \in 0..Len(raw) :
          /\ lead + Len(trimmed) <= Len(raw)
          /\ \A i \in 1..Len(raw) :
                IF i > lead /\ i <= lead + Len(trimmed)
                THEN raw[i] = trimmed[i - lead]
                ELSE raw[i] = "SP"

\* The trimmed line is quit, exit or q in some letter case, or 退出.
IsQuitWord(trimmed) ==
    /\ Len(trimmed) = 1
    /\ trimmed[1] \in {"quit", "QUIT", "Quit", "exit", "EXIT", "Exit",
                       "q", "Q", "tuichu"}

\* The calls and messages of the line handled last: the end of the log from
\* the message that closed the line before, or from the key step.
LastLineEvents ==
    LET Closing == {"key", "nokey", "bye", "reject", "answer", "error"}
        from == CHOOSE i \in 0..(Len(log) - 1) :
                    /\ i > 0 => log[i] \in Closing
                    /\ \A j \in (i + 1)..(Len(log) - 1) : log[j] \notin Closing
    IN  SubSeq(log, from + 1, Len(log))

\* How many times an event occurs in a sequence of events.
Count(events, event) == Cardinality({i \in 1..Len(events) : events[i] = event})

\* Each line of the interactive loop, trimmed, has one outcome: a quit word
\* ends the loop with no retrieval and no chat call; an empty line is
\* rejected with no retrieval and no chat call and the loop is back at the
\* prompt; any other line is a question, retrieved exactly once.
OneOutcomePerLine ==
    ret.op = "line" =>
        /\ IsTrimOf(ret.query, ret.raw)
        /\ IsQuitWord(ret.query) =>
              /\ pc = "done"
              /\ ret.printed = "bye"
              /\ LastLineEvents = <<"bye">>
        /\ ret.query = <<>> =>
              /\ pc = "loop"
              /\ ret.printed = "empty"
              /\ LastLineEvents = <<"reject">>
        /\ (~IsQuitWord(ret.query) /\ ret.query # <<>>) =>
              /\ pc = "loop"
              /\ ret.printed \in {"answer", "error"}
              /\ Count(LastLineEvents, "load")
                   + Count(LastLineEvents, "load_failed") = 1
              /\ Count(LastLineEvents, "query") <= 1
              /\ Count(LastLineEvents, "chat") <= 1
              /\ Count(LastLineEvents, "chat") = Len(ret.outcome.sent)
              /\ ret.printed = "answer" =>
                    LastLineEvents = <<"load", "query", "chat", "answer">>

\* The loop was entered and the run is over.
LoopEnded == ret.op \in {"line", "eof"} /\ pc # "loop"

\* C13 as claimed: each line has its one outcome, and the loop ends only on
\* a quit word.
C13_LoopEndsOnlyOnQuitWord ==
    /\ OneOutcomePerLine
    /\ LoopEnded => (ret.op = "line" /\ IsQuitWord(ret.query))

\* C13, amended: each line has its one outcome, and the loop ends on a quit
\* word or, with the program, when reading the line fails (end of the input,
\* keyboard interrupt).
C13_LoopEndsOnQuitWordOrFailedRead ==
    /\ OneOutcomePerLine
    /\ LoopEnded =>
          \/ ret.op = "line" /\ IsQuitWord(ret.query) /\ pc = "done"
          \/ ret.op = "eof" /\ pc = "aborted" /\ log[Len(log)] = "abort"

\* C13 witness: the line ' QUIT ' ended the loop after an earlier line.
C13_Witness ==
    /\ ret.op = "line"
    /\ ret.raw = <<"SP", "QUIT", "SP">>
    /\ pc = "done"
    /\ Len(log) > 6

\* C14: a key absent from the environment is read from a prompt; when no key
\* is obtained either way the run is aborted at startup: the question loop is
\* never entered and no question is retrieved or sent to the chat model.
C14_NoKeyAbortsAtStartup ==
    /\ ret.op = "key" =>
          /\ ret.environ = "absent" <=> Count(log, "ask_key") = 1
          /\ ret.environ # "absent" => ret.api_key = ret.environ
    /\ Count(log, "nokey") > 0 =>
          /\ pc = "aborted"
          /\ Count(log, "query") = 0
          /\ Count(log, "chat") = 0
          /\ Count(log, "bye") + Count(log, "reject") + Count(log, "answer")
               + Count(log, "error") = 0

\* The JSON data is a collection of single-key mappings of an identifier to
\* a text.
SingleKeyMappings ==
    \A i \in 1..Len(input) : Len(input[i]) = 1 /\ Len(input[i][1]) = 2

\* Some entry of the JSON data is not a mapping.
HasNonMapping ==
    \E i \in 1..Len(input) : \E p \in 1..Len(input[i]) : Len(input[i][p]) # 2

\* C15 as claimed: whenever the input is not a collection of single-key
\* mappings the run aborts with an error and no embedding call, index build
\* or chat call is made.
C15_NotSingleKeyAborts ==
    (~SingleKeyMappings /\ pc # "start") =>
        /\ pc = "aborted"
        /\ Count(log, "load") + Count(log, "embed") = 0
        /\ Count(log, "build") = 0
        /\ Count(log, "chat") = 0

\* C15, amended: whenever an entry of the input is not a mapping, chunk
\* raises and the run aborts with no model load, embedding call, index build
\* or chat call; an input of mappings is never refused for its format: a
\* mapping with several keys or with none goes on to the embedding call and
\* the build, which stores one unit per key.
C15_NonMappingAborts ==
    /\ (HasNonMapping /\ pc # "start") =>
          /\ pc = "aborted"
          /\ ret = [op |-> "startup", status |-> "error"]
          /\ log = <<"chunk">>
          /\ collection = NoCollection
    /\ (~HasNonMapping /\ pc # "start") =>
          /\ Len(log) >= 2
          /\ log[2] \in {"load", "load_failed"}
          /\ pc # "aborted" =>
                /\ SubSeq(log, 1, 4) = <<"chunk", "load", "embed", "build">>
                /\ Len(collection.entries) = PairsBefore(input, Len(input) + 1)
                /\ Units(collection.entries) = InputPairs

\* C15 witness: the second entry of the input is not a mapping and the run
\* was aborted in chunk.
C15_Witness ==
    /\ Len(input) = 2
    /\ Len(input[1]) = 1 /\ Len(input[1][1]) = 2
    /\ HasNonMapping
    /\ pc = "aborted"
    /\ log = <<"chunk">>

\* C16: build_vector_db succeeds when no collection of the name exists (the
\* failure of the delete step is swallowed), and a build from the same
\* documents right after a build leaves the contents of the index as they
\* were.
C16_BuildIsIdempotent ==
    /\ [](ret.op = "build" =>
            /\ (HasEmbeddings(ret.documents) /\ ret.documents # <<>>)
                  => ret.status = "ok"
            /\ (ret.status = "ok" /\ ~ret.existed) =>
                  /\ collection.exists
                  /\ Len(collection.entries) = Len(ret.documents)
                  /\ handle = "live")
    /\ [][(/\ ret.op = "build" /\ ret.status = "ok"
           /\ ret'.op = "build" /\ ret'.status = "ok"
           /\ ret'.documents = ret.documents)
             => collection' = collection]_vars

\* C16 witness: a build of two documents has replaced a collection that held
\* the units of these documents.
C16_Witness ==
    /\ ret.op = "build"
    /\ ret.status = "ok"
    /\ ret.existed
    /\ Len(ret.documents) = 2
    /\ ret.replaced = DocUnits(ret.documents)
    /\ Units(collection.entries) = ret.replaced

\* C17: a build that fails, at the insertion or before it, is aborted as a
\* whole: the caller gets the error and no handle of the new collection, and
\* the collection that existed before is not put back: the store holds the
\* new, empty collection.
C17_FailedBuildIsNotRolledBack ==
    (ret.op = "build" /\ ret.status = "error") =>
        /\ handle # "live"
        /\ latest.status = "error"
        /\ collection = [exists |-> TRUE, entries |-> <<>>]
        /\ ret.replaced # {} => Units(collection.entries) # ret.replaced

\* C17 witness: the insertion of an empty batch was refused in a build over
\* a collection that held units.
C17_Witness ==
    /\ ret.op = "build"
    /\ ret.status = "error"
    /\ ret.documents = <<>>
    /\ ret.replaced # {}
    /\ handle = "stale"

\* C18: in a run of the interactive program the index is written by the one
\* build of the startup only: there is one build, it precedes every query,
\* and no step taken from the question loop, a retrieval included, changes
\* the contents of the index or the handle, so every question is answered
\* from the same contents.
C18_IndexWrittenOnlyByStartup ==
    /\ [](/\ Count(log, "build") <= 1
          /\ pc \in {"key", "loop", "done"} => Count(log, "build") = 1
          /\ \A i, j \in 1..Len(log) :
                (log[i] = "query" /\ i < j) => log[j] \notin {"build", "embed"})
    /\ [][pc = "loop" => (collection' = collection /\ handle' = handle)]_vars

\* C18 witness: the second question of a run was answered from the two
\* units the startup stored.
C18_Witness ==
    /\ AskedQuestion
    /\ Count(log, "query") = 2
    /\ Count(log, "build") = 1
    /\ Len(collection.entries) = 2
    /\ Len(ret.outcome.retrieved) = 2

\* C19: over a run with one index build and any number of retrieve calls
\* the embedding model is loaded at most once.
C19_ModelLoadedOnce ==
    Count(log, "build") <= 1 => Count(log, "load") <= 1

\* The texts are those of the first entries of the index in some ranking by
\* ascending distance from the question, at most 3 of them.
IsRetrievalOf(contexts, question) ==
    /\ Len(contexts) = Min(3, Len(collection.entries))
    /\ \E p \in Rankings(collection.entries, embed_query(RETRIEVE_MODEL, question)) :
          \A j \in 1..Len(contexts) :
              contexts[j] = collection.entries[p[j]].document

\* C20: generate_answers makes, per test case and in list order, one
\* retrieval with k = 3 followed by one chat call, and appends one record per
\* case in list order, holding the case's question, the answer, the
\* retrieved texts in retrieval order and the case's reference answer; the
\* scoring function is called once, with the records of all cases, after
\* the last record, and never when a retrieval or a chat call has failed.
C20_HarnessRunsCasesThenScores ==
    ret.op \in {"generate", "score"} =>
        /\ Len(ret.records) <= Len(input)
        /\ \A i \in 1..Len(ret.records) :
              /\ ret.records[i].question = input[i].question
              /\ ret.records[i].ground_truth = input[i].ground_truth
              /\ ret.records[i].answer \in Answers
              /\ IsRetrievalOf(ret.records[i].contexts, input[i].question)
              /\ log[3 * i - 2] = "load"
              /\ log[3 * i - 1] = "query"
              /\ log[3 * i] = "chat"
        /\ (ret.op = "generate" /\ ret.position >= 1
              /\ ret.outcome.status = "answered") =>
              /\ Len(ret.records) = ret.position
              /\ Len(ret.outcome.sent) = 1
              /\ Len(ret.records[ret.position].contexts)
                   = Len(ret.outcome.retrieved)
              /\ \A j \in 1..Len(ret.outcome.retrieved) :
                    /\ ret.records[ret.position].contexts[j]
                         = ret.outcome.retrieved[j].page_content
                    /\ j > 1 =>
                          DictGet(ret.outcome.retrieved[j - 1].metadata, "distance", -1)
                            <= DictGet(ret.outcome.retrieved[j].metadata, "distance", -1)
        /\ (ret.op = "generate" /\ ret.position >= 1
              /\ ret.outcome.status = "error") =>
              /\ pc = "aborted"
              /\ Len(ret.records) = ret.position - 1
              /\ Count(log, "chat") <= ret.position
        /\ pc = "aborted" => Count(log, "score") = 0
        /\ Count(log, "score") <= 1
        /\ ret.op = "score" <=> Count(log, "score") = 1
        /\ ret.op = "score" =>
              /\ pc = "done"
              /\ Len(ret.records) = Len(input)
              /\ ret.data = ret.records
              /\ Len(log) = 3 * Len(input) + 1
              /\ log[Len(log)] = "score"

\* C20 witness: two test cases with different questions were answered, each
\* from two retrieved texts, and the two records were scored.
C20_Witness ==
    /\ ret.op = "score"
    /\ Len(ret.data) = 2
    /\ ret.data[1].question # ret.data[2].question
    /\ Len(ret.data[1].contexts) = 2
    /\ Len(ret.data[2].contexts) = 2
    /\ ret.data[2].contexts[1] # ret.data[2].contexts[2]


\* The latest call is a conversion that wrote its list.
ConvertWrote == ret.op = "convert" /\ ret.status = "ok"

\* Match i of the converted text is accepted: it is no line of the table of
\* contents and its cleaned context has more than ten characters.
AcceptedMatch(i) ==
    /\ ~(Len(StripWhite(input[i][3])) < 20 /\ HasEllipsis(StripWhite(input[i][3])))
    /\ Len(CleanContext(input[i][3])) > 10

\* The accepted matches whose identifier is key.
OccurrencesOf(key) ==
    {i \in 1..Len(input) : AcceptedMatch(i) /\ ClauseKey(input[i][1]) = key}

\* The first accepted occurrence of an identifier that has one.
FirstOccurrence(key) ==
    CHOOSE i \in OccurrencesOf(key) : \A j \in OccurrencesOf(key) : i <= j

\* The number each captured numeral denotes.
Denoted(number) ==
    CASE number = <<"san">> -> 3
      [] number = <<"3">> -> 3
      [] number = <<"shi", "er">> -> 12
      [] number = <<"1", "2">> -> 12

================================================================================
